---- MODULE Spec2Model ----
(***************************************************************************)
(* Model of oslo_rootwrap/wrapper.py: match_filter (the filter-matching    *)
(* engine, including the nested call on the embedded arguments of a        *)
(* chaining filter) and start_subprocess (match, resolve command, audit    *)
(* log, resolve environment, spawn).                                       *)
(*                                                                         *)
(* match_filter is modelled as the interpreter runs it: a stack of call    *)
(* frames, one step per loop iteration / branch of the function body.      *)
(* A filter object is identified by its position in the filter list given  *)
(* to start_subprocess (Python compares and returns filter objects by      *)
(* identity), so two filters with equal attributes stay distinguishable.   *)
(***************************************************************************)
EXTENDS Naturals, Sequences, FiniteSets

\* ---------------------------------------------------------------- bounds
MaxFilters == 2   \* longest filter list tried
MaxArgs == 2      \* longest argument vector tried

\* ------------------------------------------------------------ input sets
Tokens == {"a", "b"}
RunAs == {"root", "nova"}
\* Python's None for a list-of-strings parameter: a value no list equals.
None == <<"None">>
\* A path is <<directory, basename>>; directory "" is a bare command name.
NoPath == <<>>
ExecPaths == {<<"", "a">>, <<"/opt", "a">>}
\* The executables present on the filesystem.
Installed == {<<"/bin", "a">>}
ExecDirsInputs == {None, <<>>, <<"/bin">>, <<"/sbin", "/bin">>}

Filter == [chaining : BOOLEAN, run_as : RunAs, exec_path : ExecPaths]
FilterLists == UNION {[1..n -> Filter] : n \in 0..MaxFilters}
ArgVectors == UNION {[1..n -> Tokens] : n \in 0..MaxArgs}

VARIABLES filter_list, userargs, exec_dirs, log,
          pc, stack, filtermatch, exc, command, environment,
          logged, spawned

vars == <<filter_list, userargs, exec_dirs, log,
          pc, stack, filtermatch, exc, command, environment,
          logged, spawned>>

inputs == <<filter_list, userargs, exec_dirs, log>>

\* ------------------------------------------------- the filter capability
\* Filter.match: structural acceptance, command-name equality on args[0].
match(f, args) == Len(args) > 0 /\ args[1] = f.exec_path[2]

\* ChainingFilter.exec_args: the tail holding the embedded sub-command.
exec_args(f, args) == Tail(args)

RECURSIVE find_exec(_, _, _)
find_exec(base, dirs, i) ==
    IF i > Len(dirs) THEN NoPath
    ELSE IF <<dirs[i], base>> \in Installed THEN <<dirs[i], base>>
    ELSE find_exec(base, dirs, i + 1)

\* Filter.get_exec: the resolved executable path, or NoPath (falsy).
get_exec(f, dirs) ==
    IF f.exec_path[1] # ""
    THEN IF f.exec_path \in Installed THEN f.exec_path ELSE NoPath
    ELSE find_exec(f.exec_path[2], dirs, 1)

\* Filter.get_command: command name replaced by the resolved executable.
NoCommand == [path |-> NoPath, args |-> <<>>]
get_command(f, args, dirs) ==
    [path |-> get_exec(f, dirs), args |-> Tail(args)]

\* Filter.get_environment: the override map if given, else os.environ.
NoEnv == "unset"
get_environment(f, args, env) == IF env = "None" THEN "os.environ" ELSE env

\* --------------------------------------------------------- match_filter
\* exec_dirs = exec_dirs or []
or_empty(dirs) == IF dirs = None \/ dirs = <<>> THEN <<>> ELSE dirs

\* Variant: the run_as comparison is missing.
Mut_non_chain_filter_any_run_as(fltr, f) == ~fltr.chaining

\* Variant: the isinstance test is missing.
Mut_non_chain_filter_with_chaining(fltr, f) == fltr.run_as = f.run_as

\* def non_chain_filter(fltr)  (f is the enclosing loop variable)
non_chain_filter(fltr, f) == fltr.run_as = f.run_as /\ ~fltr.chaining

RECURSIVE select_seq(_, _, _)
select_seq(fl, f, k) ==
    IF k > Len(fl) THEN <<>>
    ELSE (IF non_chain_filter(filter_list[fl[k]], f) THEN <<fl[k]>> ELSE <<>>)
         \o select_seq(fl, f, k + 1)

\* leaf_filters = [fltr for fltr in filter_list if non_chain_filter(fltr)]
leaf_filters(fl, f) == select_seq(fl, f, 1)

\* A fresh activation of match_filter (lines 140-141).
new_frame(fl, args, dirs) ==
    [fl |-> fl, args |-> args, dirs |-> or_empty(dirs), i |-> 1,
     first_not_executable_filter |-> 0, pc |-> "for", ret |-> 0,
     raised |-> "", match |-> 0]

Top == stack[Len(stack)]
Running == pc = "match_filter" /\ Len(stack) > 0
cur(fr) == filter_list[fr.fl[fr.i]]
set_top(fr) == [stack EXCEPT ![Len(stack)] = fr]
NoExc == [type |-> "", match |-> 0]

\* Variant: the continue is missing, f is returned without an executable.
Mut_exec_check_return(fr) ==
    [fr EXCEPT !.first_not_executable_filter =
                   IF get_exec(cur(fr), fr.dirs) = NoPath /\ @ = 0
                   THEN fr.fl[fr.i] ELSE @,
               !.pc = "return", !.ret = fr.fl[fr.i]]

\* Variant: the remembered filter is overwritten by every later one.
Mut_exec_check_last(fr) ==
    IF get_exec(cur(fr), fr.dirs) = NoPath
    THEN [fr EXCEPT !.first_not_executable_filter = fr.fl[fr.i],
                    !.i = @ + 1, !.pc = "for"]
    ELSE [fr EXCEPT !.pc = "return", !.ret = fr.fl[fr.i]]

\* lines 162-168: executable absent: remember the first such filter and
\* continue; otherwise return f.
exec_check(fr) ==
    IF get_exec(cur(fr), fr.dirs) = NoPath
    THEN [fr EXCEPT !.first_not_executable_filter =
                        IF @ = 0 THEN fr.fl[fr.i] ELSE @,
                    !.i = @ + 1, !.pc = "for"]
    ELSE [fr EXCEPT !.pc = "return", !.ret = fr.fl[fr.i]]

Init ==
    /\ filter_list \in FilterLists
    /\ userargs \in ArgVectors
    /\ exec_dirs \in ExecDirsInputs
    /\ log \in BOOLEAN
    /\ pc = "start"
    /\ stack = <<>>
    /\ filtermatch = 0
    /\ exc = NoExc
    /\ command = NoCommand
    /\ environment = NoEnv
    /\ logged = 0
    /\ spawned = 0

\* start_subprocess line 195: call match_filter(filter_list, userargs, exec_dirs)
start_subprocess_call ==
    /\ pc = "start"
    /\ stack' = <<new_frame([k \in 1..Len(filter_list) |-> k], userargs, exec_dirs)>>
    /\ pc' = "match_filter"
    /\ UNCHANGED <<inputs, filtermatch, exc, command, environment, logged, spawned>>

\* line 144: f.match(userargs) is false, next filter
for_no_match ==
    /\ Running /\ Top.pc = "for" /\ Top.i <= Len(Top.fl)
    /\ ~match(cur(Top), Top.args)
    /\ stack' = set_top([Top EXCEPT !.i = @ + 1])
    /\ UNCHANGED <<inputs, pc, filtermatch, exc, command, environment, logged, spawned>>

\* lines 144-145, 162-168: a matching filter that is not a ChainingFilter
for_match_plain ==
    /\ Running /\ Top.pc = "for" /\ Top.i <= Len(Top.fl)
    /\ match(cur(Top), Top.args) /\ ~cur(Top).chaining
    /\ stack' = set_top(exec_check(Top))
    /\ UNCHANGED <<inputs, pc, filtermatch, exc, command, environment, logged, spawned>>

\* lines 154-156: chaining filter without embedded arguments: continue
chain_no_args ==
    /\ Running /\ Top.pc = "for" /\ Top.i <= Len(Top.fl)
    /\ match(cur(Top), Top.args) /\ cur(Top).chaining
    /\ exec_args(cur(Top), Top.args) = <<>>
    /\ stack' = set_top([Top EXCEPT !.i = @ + 1])
    /\ UNCHANGED <<inputs, pc, filtermatch, exc, command, environment, logged, spawned>>

\* lines 152-158: nested call on the leaf filters and the embedded arguments
chain_call ==
    /\ Running /\ Top.pc = "for" /\ Top.i <= Len(Top.fl)
    /\ match(cur(Top), Top.args) /\ cur(Top).chaining
    /\ exec_args(cur(Top), Top.args) # <<>>
    /\ stack' = Append(set_top([Top EXCEPT !.pc = "call"]),
                       new_frame(leaf_filters(Top.fl, cur(Top)),
                                 exec_args(cur(Top), Top.args), Top.dirs))
    /\ UNCHANGED <<inputs, pc, filtermatch, exc, command, environment, logged, spawned>>

\* Variant: the caller returns the nested call's value at once.
Mut_nested_return_leaf ==
    /\ Running /\ Len(stack) > 1 /\ Top.pc = "return"
    /\ stack' = [k \in 1..(Len(stack) - 1) |->
                   IF k = Len(stack) - 1
                   THEN [stack[k] EXCEPT !.pc = "return", !.ret = Top.ret]
                   ELSE stack[k]]
    /\ UNCHANGED <<inputs, pc, filtermatch, exc, command, environment, logged, spawned>>

\* lines 158, 162-168: the nested call returned; its value is discarded and
\* the chaining filter goes through the executable check
nested_return ==
    /\ Running /\ Len(stack) > 1 /\ Top.pc = "return"
    /\ stack' = [k \in 1..(Len(stack) - 1) |->
                   IF k = Len(stack) - 1 THEN exec_check(stack[k]) ELSE stack[k]]
    /\ UNCHANGED <<inputs, pc, filtermatch, exc, command, environment, logged, spawned>>

\* Variant: no except clause, the nested failure leaves the caller too.
Mut_nested_except_propagate ==
    /\ Running /\ Len(stack) > 1 /\ Top.pc = "raise"
    /\ stack' = [k \in 1..(Len(stack) - 1) |->
                   IF k = Len(stack) - 1
                   THEN [stack[k] EXCEPT !.pc = "raise", !.raised = Top.raised,
                                         !.match = Top.match]
                   ELSE stack[k]]
    /\ UNCHANGED <<inputs, pc, filtermatch, exc, command, environment, logged, spawned>>

\* lines 159-160: the nested call raised; except clause: continue
nested_except ==
    /\ Running /\ Len(stack) > 1 /\ Top.pc = "raise"
    /\ stack' = [k \in 1..(Len(stack) - 1) |->
                   IF k = Len(stack) - 1
                   THEN [stack[k] EXCEPT !.pc = "for", !.i = @ + 1] ELSE stack[k]]
    /\ UNCHANGED <<inputs, pc, filtermatch, exc, command, environment, logged, spawned>>

\* Variant: the remembered filter is ignored at the end of the scan.
Mut_for_end_nomatch ==
    /\ Running /\ Top.pc = "for" /\ Top.i > Len(Top.fl)
    /\ stack' = set_top([Top EXCEPT !.pc = "raise", !.raised = "NoFilterMatched"])
    /\ UNCHANGED <<inputs, pc, filtermatch, exc, command, environment, logged, spawned>>

\* Variant: the test of the remembered filter is inverted.
Mut_for_end_inverted ==
    /\ Running /\ Top.pc = "for" /\ Top.i > Len(Top.fl)
    /\ stack' = set_top(
         IF Top.first_not_executable_filter = 0
         THEN [Top EXCEPT !.pc = "raise", !.raised = "FilterMatchNotExecutable",
                          !.match = Top.first_not_executable_filter]
         ELSE [Top EXCEPT !.pc = "raise", !.raised = "NoFilterMatched"])
    /\ UNCHANGED <<inputs, pc, filtermatch, exc, command, environment, logged, spawned>>

\* lines 170-175: loop exhausted: raise one of the two failures
for_end ==
    /\ Running /\ Top.pc = "for" /\ Top.i > Len(Top.fl)
    /\ stack' = set_top(
         IF Top.first_not_executable_filter # 0
         THEN [Top EXCEPT !.pc = "raise", !.raised = "FilterMatchNotExecutable",
                          !.match = Top.first_not_executable_filter]
         ELSE [Top EXCEPT !.pc = "raise", !.raised = "NoFilterMatched"])
    /\ UNCHANGED <<inputs, pc, filtermatch, exc, command, environment, logged, spawned>>

\* line 195: filtermatch = <value returned by the outermost call>
match_returned ==
    /\ Running /\ Len(stack) = 1 /\ Top.pc = "return"
    /\ filtermatch' = Top.ret
    /\ stack' = <<>>
    /\ pc' = "get_command"
    /\ UNCHANGED <<inputs, exc, command, environment, logged, spawned>>

\* Variant: the failure is swallowed and the spawn goes ahead.
Mut_match_raised_fallthrough ==
    /\ Running /\ Len(stack) = 1 /\ Top.pc = "raise"
    /\ exc' = [type |-> Top.raised, match |-> Top.match]
    /\ stack' = <<>>
    /\ pc' = "Popen"
    /\ UNCHANGED <<inputs, filtermatch, command, environment, logged, spawned>>

\* line 195: the outermost call raised; start_subprocess has no handler
match_raised ==
    /\ Running /\ Len(stack) = 1 /\ Top.pc = "raise"
    /\ exc' = [type |-> Top.raised, match |-> Top.match]
    /\ stack' = <<>>
    /\ pc' = "raised"
    /\ UNCHANGED <<inputs, filtermatch, command, environment, logged, spawned>>

\* Variant: the audit record is left out.
Mut_resolve_command_nolog ==
    /\ pc = "get_command"
    /\ command' = get_command(filter_list[filtermatch], userargs, or_empty(exec_dirs))
    /\ pc' = "get_environment"
    /\ UNCHANGED <<inputs, stack, filtermatch, exc, environment, logged, spawned>>

\* line 197: command = filtermatch.get_command(userargs, exec_dirs)
resolve_command ==
    /\ pc = "get_command"
    /\ command' = get_command(filter_list[filtermatch], userargs, or_empty(exec_dirs))
    /\ pc' = IF log THEN "log" ELSE "get_environment"
    /\ UNCHANGED <<inputs, stack, filtermatch, exc, environment, logged, spawned>>

\* lines 198-201: logging.info(...)
logging_info ==
    /\ pc = "log"
    /\ logged' = logged + 1
    /\ pc' = "get_environment"
    /\ UNCHANGED <<inputs, stack, filtermatch, exc, command, environment, spawned>>

\* line 205: env=filtermatch.get_environment(userargs, env=env)
resolve_environment ==
    /\ pc = "get_environment"
    /\ \E env \in {"None", "env"} :
         environment' = get_environment(filter_list[filtermatch], userargs, env)
    /\ pc' = "Popen"
    /\ UNCHANGED <<inputs, stack, filtermatch, exc, command, logged, spawned>>

\* lines 203-207: subprocess.Popen creates the child; return obj
Popen_ok ==
    /\ pc = "Popen"
    /\ spawned' = spawned + 1
    /\ pc' = "returned"
    /\ UNCHANGED <<inputs, stack, filtermatch, exc, command, environment, logged>>

\* lines 203-206: subprocess.Popen fails to create the child (OSError)
Popen_fail ==
    /\ pc = "Popen"
    /\ exc' = [type |-> "OSError", match |-> 0]
    /\ pc' = "raised"
    /\ UNCHANGED <<inputs, stack, filtermatch, command, environment, logged, spawned>>

Next ==
    \/ start_subprocess_call
    \/ for_no_match
    \/ for_match_plain
    \/ chain_no_args
    \/ chain_call
    \/ nested_return
    \/ nested_except
    \/ for_end
    \/ match_returned
    \/ match_raised
    \/ resolve_command
    \/ logging_info
    \/ resolve_environment
    \/ Popen_ok
    \/ Popen_fail

Spec == Init /\ [][Next]_vars

\* The interpreter runs the single thread to completion.
FairSpec == Spec /\ WF_vars(Next)

\* ------------------------------------------- vocabulary of the properties
\* The filters, arguments and directories of the outermost call.
N == Len(filter_list)
F(k) == filter_list[k]
Dirs == IF exec_dirs = None THEN <<>> ELSE exec_dirs
Matches(k) == match(F(k), userargs)
Executable(k) == get_exec(F(k), Dirs) # NoPath
Embedded(k) == exec_args(F(k), userargs)
\* Some non-chaining filter of the list with the same run_as matches the
\* embedded argument vector and is executable.
LeafOK(k) ==
    \E j \in 1..N : /\ ~F(j).chaining
                    /\ F(j).run_as = F(k).run_as
                    /\ match(F(j), Embedded(k))
                    /\ get_exec(F(j), Dirs) # NoPath
PassesChain(k) == F(k).chaining => (Embedded(k) # <<>> /\ LeafOK(k))
FailsChain(k) == F(k).chaining /\ ~(Embedded(k) # <<>> /\ LeafOK(k))
Usable(k) == Matches(k) /\ PassesChain(k)
Good(k) == Usable(k) /\ Executable(k)
FirstGood(k) == Good(k) /\ \A j \in 1..(k - 1) : ~Good(j)
\* The outermost match_filter call has ended.
MatchDone == pc \notin {"start", "match_filter"}
Denied == exc.type \in {"NoFilterMatched", "FilterMatchNotExecutable"}

\* C1: first-match-wins: the outermost call returns the earliest filter in
\* list order that matches, passes the chaining check if it is a chaining
\* filter, and is executable; whenever such a filter exists it is returned.
C1_FirstMatchWins ==
    MatchDone =>
      /\ \A k \in 1..N : FirstGood(k) => filtermatch = k
      /\ filtermatch # 0 => FirstGood(filtermatch)

\* f1 was returned although a later f2 also matches and is executable.
C1_Witness ==
    /\ MatchDone /\ filtermatch # 0
    /\ \E j \in (filtermatch + 1)..N : Good(j)

\* C2 (as stated): a matching, not executable f1 followed by a matching,
\* executable f2 yields f2; and with no filter both matching and executable
\* the failure is FilterMatchNotExecutable carrying the first filter that
\* matched and was not executable.
C2_Original ==
    MatchDone =>
      /\ \A i \in 1..N : \A j \in (i + 1)..N :
           ( /\ Matches(i) /\ ~Executable(i)
             /\ Matches(j) /\ Executable(j)
             /\ \A h \in 1..(j - 1) : ~(Matches(h) /\ Executable(h)) )
           => filtermatch = j
      /\ \A i \in 1..N :
           ( /\ Matches(i) /\ ~Executable(i)
             /\ \A h \in 1..(i - 1) : ~(Matches(h) /\ ~Executable(h))
             /\ \A h \in 1..N : ~(Matches(h) /\ Executable(h)) )
           => exc = [type |-> "FilterMatchNotExecutable", match |-> i]

\* C2 (amended): the same, where a chaining filter counts as matching only if
\* it also passes the chaining check; chaining filters that match but fail
\* that check are skipped and never remembered.
C2_ExecutableSkip ==
    MatchDone =>
      /\ \A i \in 1..N : \A j \in (i + 1)..N :
           ( /\ Usable(i) /\ ~Executable(i)
             /\ FirstGood(j) )
           => filtermatch = j
      /\ \A i \in 1..N :
           ( /\ Usable(i) /\ ~Executable(i)
             /\ \A h \in 1..(i - 1) : ~(Usable(h) /\ ~Executable(h))
             /\ \A h \in 1..N : ~Good(h) )
           => exc = [type |-> "FilterMatchNotExecutable", match |-> i]

\* The failure names f1 although a later filter also matched without an
\* executable.
C2_Witness ==
    /\ exc.type = "FilterMatchNotExecutable"
    /\ \E j \in (exc.match + 1)..N : Usable(j) /\ ~Executable(j)

\* C3: a chaining filter is returned by the outermost call only
\* if its embedded arguments are non-empty and a non-chaining filter with the
\* same run_as matches them and is executable; otherwise it is not returned
\* and the scan goes on with the filters after it.
C3_ChainingCorrect ==
    /\ ( /\ Len(stack) > 0
         /\ stack[1].pc = "return"
         /\ F(stack[1].fl[stack[1].i]).chaining )
       => ( /\ Embedded(stack[1].fl[stack[1].i]) # <<>>
            /\ LeafOK(stack[1].fl[stack[1].i]) )
    /\ MatchDone =>
         /\ (filtermatch # 0 /\ F(filtermatch).chaining)
              => (Embedded(filtermatch) # <<>> /\ LeafOK(filtermatch))
         /\ \A c \in 1..N :
              (Matches(c) /\ FailsChain(c)) =>
                /\ filtermatch # c
                /\ \A j \in (c + 1)..N : FirstGood(j) => filtermatch = j

\* A matching chaining filter failed the chaining check and a later filter
\* was returned.
C3_Witness ==
    /\ MatchDone /\ filtermatch # 0
    /\ \E c \in 1..(filtermatch - 1) : Matches(c) /\ FailsChain(c)

\* C4 (as stated): NoFilterMatched only when no filter's match predicate
\* accepted the argument vector.
C4_Original ==
    exc.type = "NoFilterMatched" => \A k \in 1..N : ~Matches(k)

\* C4 (amended): NoFilterMatched only when every filter either does not match
\* or is a chaining filter that matches but fails the chaining check.
C4_NoFilterMatched ==
    exc.type = "NoFilterMatched" =>
      \A k \in 1..N : ~Matches(k) \/ FailsChain(k)

\* NoFilterMatched although a (chaining) filter's match predicate accepted.
C4_Witness ==
    exc.type = "NoFilterMatched" /\ \E k \in 1..N : Matches(k)

\* The nested call's failure is caught by the caller, which goes on scanning.
NestedFailureContained ==
    (Len(stack) > 1 /\ Top.pc = "raise") =>
      /\ Len(stack') = Len(stack) - 1
      /\ stack'[Len(stack')].pc = "for"
      /\ stack'[Len(stack')].i = stack[Len(stack) - 1].i + 1
      /\ exc' = exc /\ pc' = pc

ExactlyOneOutcome ==
    Cardinality({o \in {"filter", "NoFilterMatched", "FilterMatchNotExecutable"} :
        \/ o = "filter" /\ filtermatch # 0
        \/ o # "filter" /\ filtermatch = 0 /\ exc.type = o}) = 1

\* C5: every call of match_filter terminates, in exactly one of: a returned
\* filter, FilterMatchNotExecutable, NoFilterMatched; a failure of the nested
\* call never becomes the outcome of the outer call.
C5_Total ==
    /\ <>MatchDone
    /\ [](MatchDone => ExactlyOneOutcome)
    /\ [][NestedFailureContained]_vars

\* The nested call failed with exec_dirs absent and the outer call still ended.
C5_Witness ==
    /\ MatchDone /\ exec_dirs = None
    /\ \E k \in 1..N : /\ Matches(k) /\ F(k).chaining /\ Embedded(k) # <<>>
                       /\ ~LeafOK(k)
                       /\ \A j \in 1..(k - 1) : ~Good(j)

\* C6: with logging enabled the audit record is emitted exactly once, before
\* the spawn step: it is there whenever the spawn step is reached, has
\* succeeded or has failed, and it is never emitted a second time.
C6_LogBeforeSpawn ==
    /\ logged <= 1
    /\ (log /\ (pc \in {"Popen", "returned"} \/ exc.type = "OSError" \/ spawned > 0))
         => logged = 1
    /\ pc \in {"start", "match_filter", "get_command", "log"} => logged = 0
    /\ ~log => logged = 0

\* The spawn failed and the audit record of the intent is there.
C6_Witness == log /\ exc.type = "OSError" /\ logged = 1 /\ spawned = 0

\* C7: when match_filter fails, start_subprocess spawns nothing, resolves no
\* command or environment, logs nothing and propagates the failure; a process
\* is spawned at most once and only after a filter was returned.
C7_DenialFinal ==
    /\ Denied => /\ pc = "raised" /\ spawned = 0 /\ logged = 0
                 /\ command = NoCommand /\ environment = NoEnv
                 /\ filtermatch = 0
    /\ spawned <= 1
    /\ (spawned > 0 \/ pc \in {"get_command", "log", "get_environment", "Popen"})
         => (filtermatch # 0 /\ exc.type = "")

\* A denial with logging enabled, after a filter matched without executable.
C7_Witness == exc.type = "FilterMatchNotExecutable" /\ log /\ pc = "raised"

\* C8: an empty filter list and a non-empty argument vector always end in
\* NoFilterMatched, whatever exec_dirs is.
C8_EmptyList ==
    (MatchDone /\ N = 0 /\ userargs # <<>>) =>
      (exc = [type |-> "NoFilterMatched", match |-> 0] /\ filtermatch = 0)

C8_Witness ==
    /\ N = 0 /\ userargs # <<>> /\ exec_dirs = <<"/bin">>
    /\ exc.type = "NoFilterMatched"

\* C9: a returned filter is an element of the list given to that call, accepts
\* that call's argument vector and has an executable; it is the loop's own
\* filter (for a chaining filter the chaining filter itself, never the leaf);
\* a chaining filter that passes the embedded check without an executable is
\* not returned but remembered as a not-executable match.
C9_Postcondition ==
    /\ \A d \in 1..Len(stack) :
         stack[d].pc = "return" =>
           /\ \E k \in 1..Len(stack[d].fl) : stack[d].fl[k] = stack[d].ret
           /\ stack[d].ret = stack[d].fl[stack[d].i]
           /\ match(F(stack[d].ret), stack[d].args)
           /\ get_exec(F(stack[d].ret), stack[d].dirs) # NoPath
    /\ filtermatch # 0 =>
         /\ filtermatch \in 1..N
         /\ Matches(filtermatch) /\ Executable(filtermatch)
         /\ PassesChain(filtermatch)
    /\ MatchDone =>
         \A k \in 1..N :
           (F(k).chaining /\ Usable(k) /\ ~Executable(k)) =>
             /\ filtermatch # k
             /\ filtermatch = 0 =>
                  (exc.type = "FilterMatchNotExecutable" /\ exc.match <= k)

\* A chaining filter was returned while its leaf filter also accepts the
\* original argument vector.
C9_Witness ==
    /\ filtermatch # 0 /\ F(filtermatch).chaining
    /\ \E j \in 1..N : /\ ~F(j).chaining /\ Matches(j) /\ Executable(j)
                       /\ F(j).run_as = F(filtermatch).run_as

ChainingRunAs == {F(k).run_as : k \in {j \in 1..N : F(j).chaining}}

\* C10: the list of a nested call holds only non-chaining filters of the
\* caller's list with the chaining filter's run_as, a nested call makes no
\* further call, and the number of nested calls is at most the number of
\* distinct run_as values among the chaining filters.
C10_BoundedRecursion ==
    /\ \A d \in 2..Len(stack) :
         /\ stack[d].pc # "call"
         /\ stack[d - 1].pc = "call"
         /\ \A k \in 1..Len(stack[d].fl) :
              /\ ~F(stack[d].fl[k]).chaining
              /\ F(stack[d].fl[k]).run_as =
                   F(stack[d - 1].fl[stack[d - 1].i]).run_as
              /\ \E h \in 1..Len(stack[d - 1].fl) :
                   stack[d - 1].fl[h] = stack[d].fl[k]
    /\ Len(stack) > 0 => Len(stack) - 1 <= Cardinality(ChainingRunAs)

\* A nested call whose embedded arguments again match a chaining filter.
C10_Witness ==
    /\ Len(stack) = 2
    /\ \E k \in 1..N : F(k).chaining /\ match(F(k), Top.args)
    /\ Cardinality(ChainingRunAs) = 1

TypeOK ==
    /\ filter_list \in FilterLists
    /\ userargs \in ArgVectors
    /\ pc \in {"start", "match_filter", "get_command", "log",
               "get_environment", "Popen", "returned", "raised"}
    /\ filtermatch \in 0..Len(filter_list)
    /\ logged \in Nat /\ spawned \in Nat
====
